---- MODULE Spec2Model ----
(***************************************************************************)
(* A model of better-grammy-menu (src/unnamed/part_000, lines 1-566): the  *)
(* action codec (buildAction / parseAction), LayoutBuilder and Menu        *)
(* (buildLayout, middleware, render, send).                                *)
(*                                                                         *)
(* Strings whose characters the code inspects (callback data, ids) are     *)
(* sequences of one-character strings; texts that the code only passes on  *)
(* (message texts, error messages) are plain strings.                      *)
(*                                                                         *)
(* Developer-supplied functions (loader, callback handlers) and the host   *)
(* (Telegram through grammy) are the environment: each of their outcomes   *)
(* is an action of its own.  nanoid(6) is modelled as a source of fresh    *)
(* ids (a counter): collisions of random ids are not modelled.  The host   *)
(* may reject a menu message or an edit; the plain error text that send    *)
(* replies with in its catch block is taken to be delivered.  The host     *)
(* handles one update at a time.  A callback handler calls navigate or     *)
(* refresh at most once, and after the call it returns, lets the call's    *)
(* error through, or never completes; a handler that lost the race against *)
(* the timer is taken never to resume.                                     *)
(***************************************************************************)
EXTENDS Integers, Sequences, FiniteSets, TLC

\* ------------------------------------------------------------------ bounds

\* the most fields, separated by ":", of a string given to parseAction
MaxFields == 4

\* the largest count a handler takes a menu's state to
MaxCount == 2

\* calls a layout function makes on its builder, when build is taken on its
\* own
MaxSteps == 3

\* nanoid(6) calls the model allows in one run (static buttons included).
MaxNanoid == 6
\* Messages the host accepts per chat in one run.
MaxMessages == 2

\* ------------------------------------------------------- undefined values

\* undefined, for values that are character sequences
UndefinedStr == <<"undefined">>
\* undefined, for texts
UndefinedText == "<undefined>"
\* undefined, for message ids (Telegram message ids are positive)
UndefinedId == 0

\* ------------------------------------------------------------ token codec

MENU_PREFIX == <<"e", "i", "j", "d", "f", "w", "o", "f">>

\* ACTION_REPRESENTATION_MAPPING as a set of <<action, representation>>
ACTION_REPRESENTATION_MAPPING == { <<"callback", <<"c", "a", "l", "l">> >> }

Representation(action) ==
  (CHOOSE e \in ACTION_REPRESENTATION_MAPPING : e[1] = action)[2]

RepresentationValues == { e[2] : e \in ACTION_REPRESENTATION_MAPPING }

\* a JavaScript string is falsy exactly when it is undefined or empty
Truthy(s) == s # UndefinedStr /\ s # <<>>

buildAction(action, sourceId, targetId) ==
  MENU_PREFIX \o <<":">> \o sourceId \o <<":">> \o Representation(action)
    \o (IF Truthy(targetId) THEN <<":">> \o targetId ELSE <<>>)

RECURSIVE SplitFrom(_, _, _)
SplitFrom(s, cur, acc) ==
  IF s = <<>> THEN Append(acc, cur)
  ELSE IF Head(s) = ":" THEN SplitFrom(Tail(s), <<>>, Append(acc, cur))
  ELSE SplitFrom(Tail(s), Append(cur, Head(s)), acc)

\* String.prototype.split(":")
Split(s) == SplitFrom(s, <<>>, <<>>)

\* array destructuring: a missing element is undefined
Element(fields, i) == IF i <= Len(fields) THEN fields[i] ELSE UndefinedStr

NullAction ==
  [ok |-> FALSE, action |-> "null", sourceId |-> UndefinedStr,
   targetId |-> UndefinedStr]

\* parseAction reading the fields in the order prefix, action, menu id
parseAction_Swapped(actionString) ==
  LET fields == Split(actionString)
      menuPrefix == Element(fields, 1)
      action == Element(fields, 2)
      sourceId == Element(fields, 3)
      targetId == Element(fields, 4)
  IN IF menuPrefix # MENU_PREFIX THEN NullAction
     ELSE IF (IF action = UndefinedStr THEN <<>> ELSE action)
               \notin RepresentationValues THEN NullAction
     ELSE IF ~Truthy(sourceId) THEN NullAction
     ELSE [ok |-> TRUE,
           action |-> (CHOOSE e \in ACTION_REPRESENTATION_MAPPING :
                         e[2] = action)[1],
           sourceId |-> sourceId,
           targetId |-> targetId]

parseAction(actionString) ==
  LET fields == Split(actionString)
      menuPrefix == Element(fields, 1)
      sourceId == Element(fields, 2)
      action == Element(fields, 3)
      targetId == Element(fields, 4)
  IN IF menuPrefix # MENU_PREFIX THEN NullAction
     ELSE IF (IF action = UndefinedStr THEN <<>> ELSE action)
               \notin RepresentationValues THEN NullAction
     ELSE IF ~Truthy(sourceId) THEN NullAction
     ELSE [ok |-> TRUE,
           action |-> (CHOOSE e \in ACTION_REPRESENTATION_MAPPING :
                         e[2] = action)[1],
           sourceId |-> sourceId,
           targetId |-> targetId]

\* ------------------------------------------------------------------ nanoid

Alphabet ==
  <<"0", "1", "2", "3", "4", "5", "6", "7", "8", "9",
    "a", "b", "c", "d", "e", "f">>

\* the n-th id nanoid hands out: ids differ from one call to the next and
\* hold no ":"
nanoid(n) == <<Alphabet[(n \div 16) + 1], Alphabet[(n % 16) + 1]>>

\* ----------------------------------------------------------- LayoutBuilder

NoHandler == [action |-> <<>>, callbackFn |-> "undefined"]
NoButton == [kind |-> "none", text |-> "", callback_data |-> UndefinedStr]

\* InlineKeyboard.text / copyText / url
TextButton(text, data) ==
  [kind |-> "text", text |-> text, callback_data |-> data]
CopyButton(text) ==
  [kind |-> "copy", text |-> text, callback_data |-> UndefinedStr]
UrlButton(text) ==
  [kind |-> "url", text |-> text, callback_data |-> UndefinedStr]

\* an element of a step's buttons: a button, or an array of buttons
One(b) == [isArray |-> FALSE, button |-> b, row |-> <<>>]
Arr(row) == [isArray |-> TRUE, button |-> NoButton, row |-> row]

StaticStep(buttons, hasHandler, handler) ==
  [scope |-> "static", buttons |-> buttons, hasHandler |-> hasHandler,
   handler |-> handler, dynamicFn |-> "undefined"]

\* LayoutBuilder.callback; n is the number of nanoid calls made before it
callback(menuId, text, callbackFn, n) ==
  LET targetId == nanoid(n + 1)
      action == buildAction("callback", menuId, targetId)
  IN StaticStep(<<One(TextButton(text, action))>>, TRUE,
                [action |-> action, callbackFn |-> callbackFn])

copy(text) == StaticStep(<<One(CopyButton(text))>>, FALSE, NoHandler)

url(text) == StaticStep(<<One(UrlButton(text))>>, FALSE, NoHandler)

row == StaticStep(<<Arr(<<>>)>>, FALSE, NoHandler)

dynamic(dynamicFn) ==
  [scope |-> "dynamic", buttons |-> <<>>, hasHandler |-> FALSE,
   handler |-> NoHandler, dynamicFn |-> dynamicFn]

\* One call a layout function or a dynamic section makes on its builder.
Call(op, text, fn) == [op |-> op, text |-> text, fn |-> fn]

\* The builder after the calls `ops`, starting from `steps` with `n` nanoid
\* calls made so far.
RECURSIVE ApplyCalls(_, _, _, _)
ApplyCalls(menuId, ops, steps, n) ==
  IF ops = <<>> THEN [steps |-> steps, n |-> n]
  ELSE LET o == Head(ops) IN
    CASE o.op = "callback" ->
           ApplyCalls(menuId, Tail(ops),
                      Append(steps, callback(menuId, o.text, o.fn, n)), n + 1)
      [] o.op = "copy" ->
           ApplyCalls(menuId, Tail(ops), Append(steps, copy(o.text)), n)
      [] o.op = "url" ->
           ApplyCalls(menuId, Tail(ops), Append(steps, url(o.text)), n)
      [] o.op = "row" ->
           ApplyCalls(menuId, Tail(ops), Append(steps, row), n)
      [] o.op = "dynamic" ->
           ApplyCalls(menuId, Tail(ops), Append(steps, dynamic(o.fn)), n)

\* LayoutBuilder.prepare
prepare(steps) ==
  [staticActionHandlers |->
     LET kept == SelectSeq(steps,
                   LAMBDA step : step.scope = "static" /\ step.hasHandler)
     IN [i \in 1..Len(kept) |-> kept[i].handler]]

\* ------------------------------------------------------ developer's menus

\* JavaScript values held as loader arguments and loader data
Keys == {"resetCount", "other"}
NoFields == [k \in Keys |-> "absent"]
JsUndefined == [type |-> "undefined", str |-> "", obj |-> NoFields]
JsString(s) == [type |-> "string", str |-> s, obj |-> NoFields]
JsObject(f) == [type |-> "object", str |-> "", obj |-> f]
JsNull == [type |-> "null", str |-> "", obj |-> NoFields]

\* menu ids: createMenu draws them with nanoid(6), so they are distinct,
\* non-empty and hold no ":"
MA == <<"m", "A">>
MB == <<"m", "B">>
Menus == {MA, MB}

\* the order in which the bot registers the menus' middlewares (bot.use)
Chain == <<MA, MB>>

\* the calls each menu's layout function makes on its builder
Layout(m) ==
  IF m = MA
  THEN <<Call("callback", "A1", "onA1"), Call("row", "", ""),
         Call("dynamic", "", "listA")>>
  ELSE <<Call("callback", "B1", "onB1"), Call("callback", "B2", "undefined"),
         Call("url", "B3", "")>>

\* the calls each dynamic section makes on its nested builder, given the
\* loader's data
DynamicCalls(dynamicFn, data) ==
  CASE dynamicFn = "listA" /\ data = JsString("d2") ->
         <<Call("callback", "X", "onX"), Call("dynamic", "", "innerA")>>
    [] dynamicFn = "listA" /\ data # JsString("d2") ->
         <<Call("callback", "X", "onX")>>
    [] dynamicFn = "innerA" ->
         <<Call("row", "", ""), Call("callback", "Y", "onY")>>
    [] dynamicFn = "xy" ->
         <<Call("callback", "X", "onX"), Call("callback", "Y", "onY")>>
    [] dynamicFn = "xRowY" ->
         <<Call("callback", "X", "onX"), Call("row", "", ""),
           Call("callback", "Y", "onY")>>
    [] OTHER -> <<>>

\* MenuOptions given to createMenu: menu A gives none, menu B its own texts
Options(m) ==
  IF m = MA
  THEN [staleErrorText |-> UndefinedText, timeoutErrorText |-> UndefinedText]
  ELSE [staleErrorText |-> "", timeoutErrorText |-> "B timed out"]

\* a menu's state: an object with the key "count", or none
NoState == [defined |-> FALSE, count |-> 0]
StateObject(count) == [defined |-> TRUE, count |-> count]

\* the state function given to createMenu: () => ({ count: 0 }), for both
\* menus
initStateFn(m) == StateObject(0)

\* the onEnter given to createMenu: menu B resets its state, menu A has none
onEnterFn(m) == IF m = MB THEN "reset" ELSE "undefined"

\* what a menu's loader may resolve to
LoaderResults(m) ==
  IF m = MA
  THEN { [text |-> "text A", data |-> d, parseMode |-> UndefinedText] :
           d \in {JsString("d1"), JsString("d2")} }
  ELSE { [text |-> "text B", data |-> JsUndefined, parseMode |-> "HTML"] }

\* the arguments a caller may pass to send and navigate, and to refresh
LoaderArgs ==
  {JsUndefined, JsObject([resetCount |-> "false", other |-> "x"])}
RefreshArgs == {JsUndefined}

\* ------------------------------------------------------ LayoutBuilder.build

\* lines 166-172: the buttons of a static step go to the last row, an array
\* among them starts a new row
RECURSIVE PushButtons(_, _)
PushButtons(keyboard, buttons) ==
  IF buttons = <<>> THEN keyboard
  ELSE LET button == Head(buttons) IN
    PushButtons(
      IF button.isArray THEN Append(keyboard, button.row)
      ELSE [keyboard EXCEPT ![Len(keyboard)] = Append(@, button.button)],
      Tail(buttons))

\* BuildStatic putting a button at the front of the current row
BuildStatic_Front(acc, step) ==
  LET keyboard == acc.keyboard IN
  [acc EXCEPT !.keyboard =
                 IF step.buttons # <<>> /\ ~step.buttons[1].isArray
                 THEN [keyboard EXCEPT ![Len(keyboard)] =
                         <<step.buttons[1].button>> \o keyboard[Len(keyboard)]]
                 ELSE PushButtons(keyboard, step.buttons),
              !.staticHandlers =
                 IF step.hasHandler THEN Append(@, step.handler) ELSE @]

\* lines 165-177
BuildStatic(acc, step) ==
  [acc EXCEPT !.keyboard = PushButtons(@, step.buttons),
              !.staticHandlers =
                 IF step.hasHandler THEN Append(@, step.handler) ELSE @]

\* BuildDynamic keeping the scope the nested builder gave each handler
BuildDynamic_KeepScope(acc, dynamicBuild) ==
  [acc EXCEPT
     !.staticHandlers = @ \o dynamicBuild.staticHandlers,
     !.dynamicHandlers = @ \o dynamicBuild.dynamicHandlers,
     !.keyboard =
        IF Len(dynamicBuild.keyboard) > 0
        THEN [@ EXCEPT ![Len(@)] = @ \o Head(dynamicBuild.keyboard)]
               \o Tail(dynamicBuild.keyboard)
        ELSE @,
     !.n = dynamicBuild.n]

\* BuildDynamic starting a new row for what the section built
BuildDynamic_NewRow(acc, dynamicBuild) ==
  [acc EXCEPT
     !.dynamicHandlers =
        @ \o dynamicBuild.staticHandlers \o dynamicBuild.dynamicHandlers,
     !.keyboard = @ \o dynamicBuild.keyboard,
     !.n = dynamicBuild.n]

\* lines 188-202: what a dynamic section built goes into the outer build
BuildDynamic(acc, dynamicBuild) ==
  [acc EXCEPT
     !.dynamicHandlers =
        @ \o dynamicBuild.staticHandlers \o dynamicBuild.dynamicHandlers,
     !.keyboard =
        IF Len(dynamicBuild.keyboard) > 0
        THEN [@ EXCEPT ![Len(@)] = @ \o Head(dynamicBuild.keyboard)]
               \o Tail(dynamicBuild.keyboard)
        ELSE @,
     !.n = dynamicBuild.n]

RECURSIVE build(_, _, _, _)
RECURSIVE BuildSteps(_, _, _, _)

\* the loop of lines 164-203
BuildSteps(menuId, steps, data, acc) ==
  IF steps = <<>> THEN acc
  ELSE LET step == Head(steps) IN
    IF step.scope = "static"
    THEN BuildSteps(menuId, Tail(steps), data, BuildStatic(acc, step))
    ELSE LET builder ==
               ApplyCalls(menuId, DynamicCalls(step.dynamicFn, data), <<>>,
                          acc.n)
             dynamicBuild == build(menuId, builder.steps, data, builder.n)
         IN BuildSteps(menuId, Tail(steps), data,
                       BuildDynamic(acc, dynamicBuild))

\* build without the filter of lines 205-209
build_NoFilter(menuId, steps, data, n) ==
  LET r == BuildSteps(menuId, steps, data,
                      [keyboard |-> << <<>> >>, staticHandlers |-> <<>>,
                       dynamicHandlers |-> <<>>, n |-> n])
  IN [keyboard |-> r.keyboard,
      staticHandlers |-> r.staticHandlers,
      dynamicHandlers |-> r.dynamicHandlers,
      n |-> r.n]

\* LayoutBuilder.build; n counts the nanoid calls made so far
build(menuId, steps, data, n) ==
  LET r == BuildSteps(menuId, steps, data,
                      [keyboard |-> << <<>> >>, staticHandlers |-> <<>>,
                       dynamicHandlers |-> <<>>, n |-> n])
  IN [keyboard |-> SelectSeq(r.keyboard, LAMBDA line : Len(line) > 0),
      staticHandlers |-> r.staticHandlers,
      dynamicHandlers |-> r.dynamicHandlers,
      n |-> r.n]

\* ---------------------------------------------------------------- createMenu

\* createMenu for every menu, in the order of Chain: each builder after its
\* layout function ran, and the nanoid calls made
RECURSIVE CreateMenus(_, _, _)
CreateMenus(i, builders, n) ==
  IF i > Len(Chain) THEN [builders |-> builders, n |-> n]
  ELSE LET b == ApplyCalls(Chain[i], Layout(Chain[i]), <<>>, n) IN
    CreateMenus(i + 1, builders @@ (Chain[i] :> b.steps), b.n)

Created == CreateMenus(1, <<>>, 0)

\* Menu.builder
Builder(m) == Created.builders[m]

\* a Map built by calling set(handler.action, handler) for each handler
RECURSIVE MapOf(_, _)
MapOf(handlers, map) ==
  IF handlers = <<>> THEN map
  ELSE LET h == Head(handlers) IN
    MapOf(Tail(handlers),
          [a \in DOMAIN map \cup {h.action} |->
             IF a = h.action THEN h ELSE map[a]])

EmptyMap == [a \in {} |-> NoHandler]

\* Menu's constructor, lines 274-279
StaticActionHandlerMap(m) ==
  MapOf(prepare(Builder(m)).staticActionHandlers, EmptyMap)

\* ------------------------------------------------------------------- state

Chats == {"c1", "c2"}
\* the chats whose updates Spec follows
ActiveChats == {"c1"}

VARIABLES
  staticActionHandlersByAction,          \* per menu: Map action -> handler
  dynamicActionHandlersByActionByChatId, \* per menu: Map chat id -> Map
  session,      \* per chat: ctx.session._menu
  nanoidCalls,  \* nanoid calls made so far
  messages,     \* per chat: how many messages the chat holds, and its
                \* newest menu message
  update,       \* the update (or bot command) the host is handling
  pc,           \* where its handling stands
  mw,           \* the middleware that took the update
  call,         \* the send / navigate / refresh in progress
  out,          \* what the handling of the update did so far
  probe         \* a call of a function of the library on its own: its
                \* arguments and, once it returned, its result

vars ==
  <<staticActionHandlersByAction, dynamicActionHandlersByActionByChatId,
    session, nanoidCalls, messages, update, pc, mw, call, out, probe>>

NoMenu == <<>>

\* The host's chat, as far as the menus can tell: the number of messages
\* in it (message ids count up from 1) and the newest message that was sent
\* with a menu: its id, the menu it shows, and the menus it showed before
\* edits put another there.
NoMessage ==
  [message_id |-> UndefinedId, menu |-> NoMenu, previously |-> {},
   callback_data |-> {}]
NoMessages == [count |-> 0, last |-> NoMessage]
NoError == [thrown |-> FALSE, message |-> UndefinedText]
Error(message) == [thrown |-> TRUE, message |-> message]

\* session = {} : what grammy's session({ initial: () => ({}) }) starts with
\* (entries: the menu ids that have an entry; state: the state in each
\* entry).  Two fields are not in the code: lazyInits counts, up to 2, the
\* calls getState made of each menu's state function, and ownLoaderData is
\* the data each menu's loader returned when the menu was last built.
NoSession ==
  [_menu |-> FALSE, activeMessageId |-> UndefinedId,
   activeMenuLoaderArgs |-> JsUndefined, activeMenuLoaderData |-> JsUndefined,
   entries |-> {},
   state |-> [m \in Menus |-> NoState],
   lazyInits |-> [m \in Menus |-> 0],
   ownLoaderData |-> [m \in Menus |-> JsUndefined],
   minted |-> {}]

NoCall ==
  [menu |-> NoMenu, args |-> JsUndefined, via |-> "none",
   text |-> UndefinedText, data |-> JsUndefined, parseMode |-> UndefinedText,
   keyboard |-> <<>>, staticHandlers |-> <<>>, dynamicHandlers |-> <<>>,
   error |-> NoError, activeBefore |-> UndefinedId, nanoidBefore |-> 0,
   loader |-> "pending", built |-> FALSE, returned |-> "no",
   stateAtCall |-> NoState, stateAtLoader |-> NoState,
   sessionArgs |-> JsUndefined, partial |-> JsUndefined, steps |-> <<>>]

NoMw == [pos |-> 0, menu |-> NoMenu, actionHandler |-> NoHandler]

NoOut ==
  [answers |-> <<>>, next |-> <<>>, invoked |-> <<>>, replies |-> <<>>,
   raised |-> NoError, activeBefore |-> UndefinedId, owners |-> {},
   handler |-> "none", thrown |-> NoError]

\* (menu_state: the menu whose state ctx.menu.state reads and writes)
NoUpdate ==
  [kind |-> "none", chat |-> "", data |-> <<>>, message_id |-> UndefinedId,
   menu_state |-> NoMenu]

\* no function is called on its own
NoProbe == [fn |-> "none", returned |-> FALSE]

\* the bot after its menus were created and registered
Started ==
  /\ staticActionHandlersByAction = [m \in Menus |-> StaticActionHandlerMap(m)]
  /\ dynamicActionHandlersByActionByChatId = [m \in Menus |-> <<>>]
  /\ session = [c \in Chats |-> NoSession]
  /\ nanoidCalls = Created.n
  /\ messages = [c \in Chats |-> NoMessages]
  /\ update = NoUpdate
  /\ pc = "idle"
  /\ mw = NoMw
  /\ call = NoCall
  /\ out = NoOut

Init == Started /\ probe = NoProbe

\* ------------------------------------------------------------------ options

defaultOptions ==
  [staleErrorText |-> "The menu is stalled",
   timeoutErrorText |-> "The action took too long to execute"]

\* a ?? b
Coalesce(a, b) == IF a = UndefinedText THEN b ELSE a

\* staleErrorText with || in place of ??: an empty configured text counts
\* as none
staleErrorText_Or(m) ==
  IF Options(m).staleErrorText \in {UndefinedText, ""}
  THEN defaultOptions.staleErrorText
  ELSE Options(m).staleErrorText

\* this.options?.staleErrorText ?? this.defaultOptions.staleErrorText
staleErrorText(m) ==
  Coalesce(Options(m).staleErrorText, defaultOptions.staleErrorText)

\* this.options?.timeoutErrorText ?? this.defaultOptions.timeoutErrorText
timeoutErrorText(m) ==
  Coalesce(Options(m).timeoutErrorText, defaultOptions.timeoutErrorText)

\* ---------------------------------------------------------------- accessors

\* the action string of the callback button that the i-th nanoid call made
\* for menu m
Token(m, i) == buildAction("callback", m, nanoid(i))

\* the place of menu m in the chain of middlewares
Place(m) == CHOOSE i \in DOMAIN Chain : Chain[i] = m


\* ctx.session._menu?.activeMessageId
ActiveMessageId(c) ==
  IF session[c]._menu THEN session[c].activeMessageId ELSE UndefinedId

\* Map.get with optional chaining: the handler registered for `data`, if any
Lookup(map, data) == IF data \in DOMAIN map THEN map[data] ELSE NoHandler
Has(map, data) == data \in DOMAIN map

\* this.dynamicActionHandlersByActionByChatId.get(chat)
DynamicMap(m, c) ==
  IF c \in DOMAIN dynamicActionHandlersByActionByChatId[m]
  THEN dynamicActionHandlersByActionByChatId[m][c]
  ELSE EmptyMap

\* the menu a message of the chat shows, NoMenu when it is not the newest
\* menu message
Shown(c, id) ==
  IF id # UndefinedId /\ id = messages[c].last.message_id
  THEN messages[c].last.menu ELSE NoMenu

\* the menus a message of the chat showed before its last edit
Previously(c, id) ==
  IF id # UndefinedId /\ id = messages[c].last.message_id
  THEN messages[c].last.previously ELSE {}

\* the most nanoid calls one render of menu m makes
MaxMint(m) ==
  LET mints == { build(m, Builder(m), r.data, 0).n : r \in LoaderResults(m) }
  IN CHOOSE k \in mints : \A j \in mints : j <= k

\* every action string minted so far: those of the static buttons, and
\* those minted by renders (of the menus that have dynamic sections)
Minted ==
  UNION { DOMAIN StaticActionHandlerMap(m) : m \in Menus }
    \cup { buildAction("callback", m, nanoid(i)) :
             m \in { k \in Menus : MaxMint(k) > 0 },
             i \in (Created.n + 1)..nanoidCalls }

\* an action string of the codec's form that was never minted
Forged == buildAction("callback", MB, <<"z", "z">>)

\* callback data an update may carry: a minted action, data of another
\* middleware, or none ("")
CallbackData ==
  Minted \cup {Forged, <<"x", ":", "y">>, <<>>}

\* --------------------------------------------------------- Menu.buildLayout

\* Menu.initContext, lines 286-290
initContext(s, m) ==
  IF s._menu THEN [s EXCEPT !.entries = @ \cup {m}]
  ELSE [NoSession EXCEPT !._menu = TRUE, !.entries = {m}]

\* getState calling the state function whether or not the entry has a state
getState_Always(s, m) ==
  [s EXCEPT !.state[m] = initStateFn(m),
            !.lazyInits[m] = IF @ < 2 THEN @ + 1 ELSE @]

\* Menu.getState, lines 311-320, for a menu that was given a state function
\* and has an entry in the session: an entry without a state gets what the
\* state function returns
getState(s, m) ==
  IF s.state[m].defined THEN s
  ELSE [s EXCEPT !.state[m] = initStateFn(m),
                 !.lazyInits[m] = IF @ < 2 THEN @ + 1 ELSE @]

\* state.reset(), lines 333-337
StateReset(s, m) == [s EXCEPT !.state[m] = initStateFn(m)]

\* state.set("count", prev => prev + 1), lines 324-332
StateSet(s, m) == [s EXCEPT !.state[m].count = @ + 1]

\* lines 349-351: the menu's onEnter, which has ctx.menu.state of the menu
onEnter(s, m) == IF onEnterFn(m) = "reset" THEN StateReset(s, m) ELSE s

\* SetDynamicHandlers adding to the chat's map instead of replacing it
SetDynamicHandlers_Merge(byChat, c, dynamicHandlers) ==
  [k \in DOMAIN byChat \cup {c} |->
     IF k = c
     THEN MapOf(dynamicHandlers,
                IF c \in DOMAIN byChat THEN byChat[c] ELSE EmptyMap)
     ELSE byChat[k]]

\* lines 376-383: the chat's dynamic handlers after a build
\* a build that registers its dynamic handlers for every chat
SetDynamicHandlers_Shared(byChat, c, dynamicHandlers) ==
  [k \in DOMAIN byChat \cup Chats |-> MapOf(dynamicHandlers, EmptyMap)]

SetDynamicHandlers(byChat, c, dynamicHandlers) ==
  [k \in DOMAIN byChat \cup {c} |->
     IF k = c THEN MapOf(dynamicHandlers, EmptyMap) ELSE byChat[k]]

\* PersistLoader writing a new _menu record, which drops activeMessageId
PersistLoader_Fresh(s, args, data) ==
  [s EXCEPT !.activeMenuLoaderArgs = args, !.activeMenuLoaderData = data,
            !.activeMessageId = UndefinedId]

\* lines 385-386
PersistLoader(s, args, data) ==
  [s EXCEPT !.activeMenuLoaderArgs = args, !.activeMenuLoaderData = data]

\* An error leaves the render in progress.  In send it reaches the catch of
\* lines 481-483, which replies with its message; in navigate and refresh
\* (Menu.render has no catch) it reaches the callback handler that called.
Throws(e, how) ==
  IF call.via = "send"
  THEN /\ messages' = [messages EXCEPT ![update.chat].count = @ + 1]
       /\ out' = [out EXCEPT !.replies =
                    Append(@, [message_id |-> messages[update.chat].count + 1,
                               text |-> e.message, menu |-> NoMenu])]
       /\ call' = [call EXCEPT !.error = e, !.returned = "caught",
                                 !.loader = IF pc = "loaderFn" THEN how ELSE @]
       /\ pc' = "done"
  ELSE /\ call' = [call EXCEPT !.error = e, !.returned = "threw",
                                 !.loader = IF pc = "loaderFn" THEN how ELSE @]
       /\ pc' = "callbackFn"
       /\ UNCHANGED <<messages, out>>

\* lines 344-351: the session after initContext, getState and onEnter
Entered(s, m) == onEnter(getState(initContext(s, m), m), m)

\* a buildLayout that runs onEnter before it resolves the state
EnterSteps_OnEnterFirst(m) ==
  (IF onEnterFn(m) # "undefined" THEN <<"onEnter">> ELSE <<>>)
    \o <<"getState">>

\* lines 346-351: the steps of buildLayout before the loader, in the order
\* they complete (each is awaited)
EnterSteps(m) ==
  <<"getState">>
    \o (IF onEnterFn(m) # "undefined" THEN <<"onEnter">> ELSE <<>>)

\* lines 371-386: the steps of buildLayout after the loader
BuildStepsDone == <<"build", "setDynamicHandlers", "persist">>

\* lines 344-351: initContext, getState, which puts the menu's state into
\* ctx.menu.state, and onEnter; then the loader is called
buildLayout_enter ==
  /\ pc = "buildLayout"
  /\ LET entered == Entered(session[update.chat], call.menu) IN
       /\ session' = [session EXCEPT ![update.chat] = entered]
       /\ call' = [call EXCEPT !.stateAtLoader = entered.state[call.menu],
                               !.steps = @ \o EnterSteps(call.menu)]
  /\ update' = [update EXCEPT !.menu_state = call.menu]
  /\ pc' = "loaderFn"
  /\ UNCHANGED <<probe, staticActionHandlersByAction,
                 dynamicActionHandlersByActionByChatId, nanoidCalls, messages,
                 mw, out>>

\* lines 353-369: the loader wins the race
loader_resolves ==
  /\ pc = "loaderFn"
  /\ \E r \in LoaderResults(call.menu) :
       call' = [call EXCEPT !.text = r.text, !.data = r.data,
                            !.parseMode = r.parseMode, !.loader = "resolved",
                            !.steps = Append(@, "loaderFn")]
  /\ pc' = "build"
  /\ UNCHANGED <<probe, staticActionHandlersByAction,
                 dynamicActionHandlersByActionByChatId, session, nanoidCalls,
                 messages, update, mw, out>>

\* lines 353-369: the loader rejects
loader_throws ==
  /\ pc = "loaderFn"
  /\ Throws(Error("loader failed"), "threw")
  /\ UNCHANGED <<probe, staticActionHandlersByAction,
                 dynamicActionHandlersByActionByChatId, session, nanoidCalls,
                 update, mw>>

\* loader_timeout without the timer: the loader is awaited alone
loader_timeout_NoTimer ==
  /\ pc = "loaderFn"
  /\ FALSE
  /\ UNCHANGED vars

\* lines 357-368: the timer wins the race
loader_timeout ==
  /\ pc = "loaderFn"
  /\ Throws(Error(timeoutErrorText(call.menu)), "timeout")
  /\ UNCHANGED <<probe, staticActionHandlersByAction,
                 dynamicActionHandlersByActionByChatId, session, nanoidCalls,
                 update, mw>>

\* lines 371-388: build the layout, replace the chat's dynamic handlers,
\* persist the loader's arguments and data
buildLayout_build ==
  /\ pc = "build"
  /\ LET built == build(call.menu, Builder(call.menu), call.data, nanoidCalls)
         c == update.chat
     IN /\ nanoidCalls' = built.n
        /\ dynamicActionHandlersByActionByChatId' =
             [dynamicActionHandlersByActionByChatId EXCEPT ![call.menu] =
                SetDynamicHandlers(@, c, built.dynamicHandlers)]
        /\ session' = [session EXCEPT ![c] =
                         [PersistLoader(@, call.args, call.data) EXCEPT
                            !.ownLoaderData[call.menu] = call.data,
                            !.minted = @ \cup (nanoidCalls + 1)..built.n]]
        /\ call' = [call EXCEPT !.steps = @ \o BuildStepsDone,
                                !.nanoidBefore = nanoidCalls,
                                !.built = TRUE,
                                !.keyboard = built.keyboard,
                                !.staticHandlers = built.staticHandlers,
                                !.dynamicHandlers = built.dynamicHandlers]
  /\ pc' = IF call.via = "send" THEN "reply" ELSE "editMessageText"
  /\ UNCHANGED <<probe, staticActionHandlersByAction, messages, update, mw,
                 out>>

\* the chat after the host sent the menu being rendered as a new message
\* the callback_data of the buttons of an inline keyboard
CallbackDataOf(keyboard) ==
  UNION { { keyboard[r][k].callback_data : k \in DOMAIN keyboard[r] } :
            r \in DOMAIN keyboard } \ {UndefinedStr}

Replied(chat) ==
  [count |-> chat.count + 1,
   last |-> [message_id |-> chat.count + 1, menu |-> call.menu,
             previously |-> {},
             callback_data |-> CallbackDataOf(call.keyboard)]]

\* the chat after the host put the menu being rendered into message id
Edited(chat, id) ==
  IF id # UndefinedId /\ id = chat.last.message_id
  THEN [chat EXCEPT
          !.last.menu = call.menu,
          !.last.previously = (@ \cup {chat.last.menu}) \ {call.menu},
          !.last.callback_data = CallbackDataOf(call.keyboard)]
  ELSE chat

\* ---------------------------------------------------------------- Menu.send

\* RecordActive with ??= in place of =: the first id is kept
RecordActive_Once(s, message_id) ==
  IF s.activeMessageId = UndefinedId
  THEN [s EXCEPT !.activeMessageId = message_id]
  ELSE s

\* line 480
RecordActive(s, message_id) == [s EXCEPT !.activeMessageId = message_id]

\* Menu.send is called (from a bot command); lines 467-475
send(c, m, args) ==
  /\ pc = "idle"
  /\ messages[c].count < MaxMessages
  /\ nanoidCalls + MaxMint(m) <= MaxNanoid
  /\ update' = [NoUpdate EXCEPT !.kind = "command", !.chat = c]
  /\ call' = [NoCall EXCEPT !.menu = m, !.args = args, !.via = "send",
                            !.activeBefore = ActiveMessageId(c)]
  /\ out' = [NoOut EXCEPT !.activeBefore = ActiveMessageId(c)]
  /\ mw' = NoMw
  /\ pc' = "buildLayout"
  /\ UNCHANGED <<probe, staticActionHandlersByAction,
                 dynamicActionHandlersByActionByChatId, session, nanoidCalls,
                 messages>>

\* lines 476-480: the host sends the menu
send_reply ==
  /\ pc = "reply"
  /\ LET c == update.chat
         message_id == messages[c].count + 1
     IN /\ messages' = [messages EXCEPT ![c] = Replied(@)]
        /\ session' = [session EXCEPT ![c] = RecordActive(@, message_id)]
        /\ out' = [out EXCEPT !.replies =
                     Append(@, [message_id |-> message_id,
                                text |-> call.text, menu |-> call.menu])]
  /\ call' = [call EXCEPT !.returned = "ok", !.steps = Append(@, "emit")]
  /\ pc' = "done"
  /\ UNCHANGED <<probe, staticActionHandlersByAction,
                 dynamicActionHandlersByActionByChatId, nanoidCalls, update,
                 mw>>

\* line 476: the host rejects the menu message
send_reply_fails ==
  /\ pc = "reply"
  /\ Throws(Error("reply failed"), "")
  /\ UNCHANGED <<probe, staticActionHandlersByAction,
                 dynamicActionHandlersByActionByChatId, session, nanoidCalls,
                 update, mw>>

\* -------------------------------------------------------------- Menu.render

\* lines 461-464: the host edits the message the update came from
render_edit ==
  /\ pc = "editMessageText"
  /\ messages' = [messages EXCEPT ![update.chat] =
                      Edited(@, update.message_id)]
  /\ call' = [call EXCEPT !.returned = "ok", !.steps = Append(@, "emit")]
  /\ pc' = "callbackFn"
  /\ UNCHANGED <<probe, staticActionHandlersByAction,
                 dynamicActionHandlersByActionByChatId, session, nanoidCalls,
                 update, mw, out>>

\* line 461: the host rejects the edit
render_edit_fails ==
  /\ pc = "editMessageText"
  /\ Throws(Error("edit failed"), "")
  /\ UNCHANGED <<probe, staticActionHandlersByAction,
                 dynamicActionHandlersByActionByChatId, session, nanoidCalls,
                 update, mw>>

\* ---------------------------------------------------------- Menu.middleware

\* lines 393-397: the static map first, then the chat's dynamic map
Resolve(m, c, callbackQuery) ==
  IF Has(staticActionHandlersByAction[m], callbackQuery)
  THEN [found |-> TRUE,
        actionHandler |-> staticActionHandlersByAction[m][callbackQuery]]
  ELSE IF Has(DynamicMap(m, c), callbackQuery)
  THEN [found |-> TRUE, actionHandler |-> DynamicMap(m, c)[callbackQuery]]
  ELSE [found |-> FALSE, actionHandler |-> NoHandler]

\* lines 399-404, negated: the update is this menu's
Owns(m, resolved) ==
  LET parsed == parseAction(resolved.actionHandler.action) IN
  parsed.ok /\ resolved.found /\ parsed.sourceId = m

\* lines 406-409
IsStale(c, message_id) == message_id # ActiveMessageId(c)

\* lines 411-415
StaleAnswer(m) == [show_alert |-> TRUE, text |-> staleErrorText(m)]

\* answerCallbackQuery()
SilentAnswer == [show_alert |-> FALSE, text |-> UndefinedText]

\* lines 449-453
ErrorAnswer(e) ==
  [show_alert |-> TRUE,
   text |-> IF e.message = UndefinedText THEN "Unknown error" ELSE e.message]

\* line 421
HasCallback(resolved) ==
  /\ parseAction(resolved.actionHandler.action).action = "callback"
  /\ resolved.actionHandler.callbackFn # "undefined"

\* Menu.getState reads ctx.session._menu[this.id].state (line 312), which
\* throws a TypeError when the session holds no entry for the menu
getStateThrows(s, m) == ~s._menu \/ m \notin s.entries

\* Catch without the throw of line 455
Catch_Swallow(e, how) ==
  /\ out' = [out EXCEPT !.answers = Append(@, ErrorAnswer(e)),
                        !.handler = how, !.thrown = e]
  /\ pc' = "done"

\* lines 448-456: answer with the error's message, then throw it again
Catch(e, how) ==
  /\ out' = [out EXCEPT !.answers = Append(@, ErrorAnswer(e)),
                        !.raised = e, !.handler = how, !.thrown = e]
  /\ pc' = "done"

\* the host dispatches an update of chat c to the middlewares: callback
\* data (none for an update that is no callback query) and the id of the
\* message the pressed button is under (none for an inline message)
dispatch(c, data, message_id) ==
  /\ pc = "idle"
  /\ update' = [NoUpdate EXCEPT !.kind = "callback_query", !.chat = c,
                                !.data = data, !.message_id = message_id]
  /\ mw' = [NoMw EXCEPT !.pos = 1]
  /\ call' = NoCall
  /\ out' = [NoOut EXCEPT
               !.activeBefore = ActiveMessageId(c),
               !.owners = { m \in Menus :
                              \/ data \in DOMAIN staticActionHandlersByAction[m]
                              \/ data \in DOMAIN DynamicMap(m, c) }]
  /\ pc' = "middleware"
  /\ UNCHANGED <<probe, staticActionHandlersByAction,
                 dynamicActionHandlersByActionByChatId, session, nanoidCalls,
                 messages>>

\* middleware_next with "return" in place of "return next()"
middleware_return ==
  /\ pc = "middleware"
  /\ ~Owns(Chain[mw.pos], Resolve(Chain[mw.pos], update.chat, update.data))
  /\ mw' = [mw EXCEPT !.pos = @ + 1]
  /\ pc' = "done"
  /\ UNCHANGED <<probe, staticActionHandlersByAction,
                 dynamicActionHandlersByActionByChatId, session, nanoidCalls,
                 messages, update, call, out>>

\* lines 391-404: not this menu's update, next() is called
middleware_next ==
  /\ pc = "middleware"
  /\ LET m == Chain[mw.pos] IN
       /\ ~Owns(m, Resolve(m, update.chat, update.data))
       /\ out' = [out EXCEPT !.next = Append(@, m)]
  /\ mw' = [mw EXCEPT !.pos = @ + 1]
  /\ pc' = IF mw.pos = Len(Chain) THEN "done" ELSE "middleware"
  /\ UNCHANGED <<probe, staticActionHandlersByAction,
                 dynamicActionHandlersByActionByChatId, session, nanoidCalls,
                 messages, update, call>>

\* lines 406-418: the update is for a message that is not the active one
\* a middleware that answers a stale press and passes it on as well
middleware_stale_Next ==
  /\ pc = "middleware"
  /\ LET m == Chain[mw.pos] IN
       /\ Owns(m, Resolve(m, update.chat, update.data))
       /\ IsStale(update.chat, update.message_id)
       /\ out' = [out EXCEPT !.answers = Append(@, StaleAnswer(m)),
                             !.next = Append(@, m)]
       /\ mw' = [mw EXCEPT !.menu = m]
  /\ pc' = "done"
  /\ UNCHANGED <<probe, staticActionHandlersByAction,
                 dynamicActionHandlersByActionByChatId, session, nanoidCalls,
                 messages, update, call>>

middleware_stale ==
  /\ pc = "middleware"
  /\ LET m == Chain[mw.pos] IN
       /\ Owns(m, Resolve(m, update.chat, update.data))
       /\ IsStale(update.chat, update.message_id)
       /\ out' = [out EXCEPT !.answers = Append(@, StaleAnswer(m))]
       /\ mw' = [mw EXCEPT !.menu = m]
  /\ pc' = "done"
  /\ UNCHANGED <<probe, staticActionHandlersByAction,
                 dynamicActionHandlersByActionByChatId, session, nanoidCalls,
                 messages, update, call>>

\* lines 420-432: getState puts the menu's state into ctx.menu.state and
\* the callback handler is called with the persisted loader data; a
\* TypeError of getState goes to the catch
middleware_call ==
  /\ pc = "middleware"
  /\ LET m == Chain[mw.pos]
         c == update.chat
         resolved == Resolve(m, c, update.data)
     IN /\ Owns(m, resolved)
        /\ ~IsStale(c, update.message_id)
        /\ HasCallback(resolved)
        /\ mw' = [mw EXCEPT !.menu = m,
                            !.actionHandler = resolved.actionHandler]
        /\ IF getStateThrows(session[c], m)
           THEN /\ Catch(Error("TypeError"), "none")
                /\ UNCHANGED <<session, update>>
           ELSE /\ session' = [session EXCEPT ![c] = getState(@, m)]
                /\ update' = [update EXCEPT !.menu_state = m]
                /\ out' = [out EXCEPT !.invoked =
                             Append(@, [menu |-> m,
                                        action |-> resolved.actionHandler.action,
                                        data |-> session[c].activeMenuLoaderData,
                                        own |-> session[c].ownLoaderData[m],
                                        shown |-> Shown(c, update.message_id),
                                        previously |->
                                          Previously(c, update.message_id),
                                        activeMessageId |-> ActiveMessageId(c),
                                        message_id |-> update.message_id])]
                /\ pc' = "callbackFn"
  /\ UNCHANGED <<probe, staticActionHandlersByAction,
                 dynamicActionHandlersByActionByChatId, nanoidCalls, messages,
                 call>>

\* lines 421, 447: a button declared without a callback is only answered
middleware_answer ==
  /\ pc = "middleware"
  /\ LET m == Chain[mw.pos]
         resolved == Resolve(m, update.chat, update.data)
     IN /\ Owns(m, resolved)
        /\ ~IsStale(update.chat, update.message_id)
        /\ ~HasCallback(resolved)
        /\ mw' = [mw EXCEPT !.menu = m,
                            !.actionHandler = resolved.actionHandler]
  /\ out' = [out EXCEPT !.answers = Append(@, SilentAnswer)]
  /\ pc' = "done"
  /\ UNCHANGED <<probe, staticActionHandlersByAction,
                 dynamicActionHandlersByActionByChatId, session, nanoidCalls,
                 messages, update, call>>

\* ------------------------------------------------- the callback handler runs

\* refresh that renders with the override alone when one is given
refreshArgs_Replace(sessionArgs, args) ==
  IF args.type \notin {"undefined", "null"} THEN args ELSE sessionArgs

\* lines 298-305: the arguments refresh renders with; typeof null is
\* "object", which the test at line 302 excludes, and ?? takes its right
\* side for null and undefined
refreshArgs(sessionArgs, args) ==
  IF sessionArgs.type = "object"
  THEN JsObject([k \in Keys |->
                   IF args.obj[k] # "absent" THEN args.obj[k]
                   ELSE sessionArgs.obj[k]])
  ELSE IF args.type \notin {"undefined", "null"} THEN args ELSE sessionArgs

\* the handler calls ctx.menu.navigate(menu, args), lines 294-297
callback_navigate(m, args) ==
  /\ pc = "callbackFn"
  /\ call.via = "none"
  /\ nanoidCalls + MaxMint(m) <= MaxNanoid
  /\ call' = [NoCall EXCEPT !.menu = m, !.args = args, !.via = "navigate",
                            !.activeBefore = ActiveMessageId(update.chat)]
  /\ pc' = "buildLayout"
  /\ UNCHANGED <<probe, staticActionHandlersByAction,
                 dynamicActionHandlersByActionByChatId, session, nanoidCalls,
                 messages, update, mw, out>>

\* the handler calls ctx.menu.refresh(args), lines 298-306
callback_refresh(args) ==
  /\ pc = "callbackFn"
  /\ call.via = "none"
  /\ nanoidCalls + MaxMint(mw.menu) <= MaxNanoid
  /\ call' = [NoCall EXCEPT
                !.menu = mw.menu,
                !.args = refreshArgs(
                           session[update.chat].activeMenuLoaderArgs, args),
                !.via = "refresh",
                !.activeBefore = ActiveMessageId(update.chat),
                !.stateAtCall = session[update.chat].state[mw.menu],
                !.sessionArgs = session[update.chat].activeMenuLoaderArgs,
                !.partial = args]
  /\ pc' = "buildLayout"
  /\ UNCHANGED <<probe, staticActionHandlersByAction,
                 dynamicActionHandlersByActionByChatId, session, nanoidCalls,
                 messages, update, mw, out>>

\* lines 426-447: the handler wins the race and the update is answered
callback_returns ==
  /\ pc = "callbackFn"
  /\ out' = [out EXCEPT !.answers = Append(@, SilentAnswer),
                        !.handler = "returned"]
  /\ pc' = "done"
  /\ UNCHANGED <<probe, staticActionHandlersByAction,
                 dynamicActionHandlersByActionByChatId, session, nanoidCalls,
                 messages, update, mw, call>>

\* what a handler may throw: before it calls navigate or refresh an error
\* of its own or a value that has no message, after the call the error the
\* call threw
HandlerErrors ==
  IF call.returned = "threw" THEN {call.error}
  ELSE IF call.via = "none" THEN {Error("handler failed"), Error(UndefinedText)}
  ELSE {}

\* lines 426-432, 448-456: the handler rejects
callback_throws(e) ==
  /\ pc = "callbackFn"
  /\ Catch(e, "threw")
  /\ UNCHANGED <<probe, staticActionHandlersByAction,
                 dynamicActionHandlersByActionByChatId, session, nanoidCalls,
                 messages, update, mw, call>>

\* callback_timeout without the timer: the handler is awaited alone
callback_timeout_NoTimer ==
  /\ pc = "callbackFn"
  /\ FALSE
  /\ UNCHANGED vars

\* lines 433-444, 448-456: the timer wins the race, whatever the handler
\* is waiting for
callback_timeout ==
  /\ update.kind = "callback_query"
  /\ pc \in {"callbackFn", "buildLayout", "loaderFn", "build", "dynamicFn",
             "editMessageText"}
  /\ Catch(Error(timeoutErrorText(mw.menu)), "timeout")
  /\ UNCHANGED <<probe, staticActionHandlersByAction,
                 dynamicActionHandlersByActionByChatId, session, nanoidCalls,
                 messages, update, mw, call>>

\* the handling of the update is over: control is back with the host
return ==
  /\ pc = "done"
  /\ pc' = "idle"
  /\ update' = NoUpdate
  /\ mw' = NoMw
  /\ call' = NoCall
  /\ out' = NoOut
  /\ UNCHANGED <<probe, staticActionHandlersByAction,
                 dynamicActionHandlersByActionByChatId, session, nanoidCalls,
                 messages>>

\* ------------------------------------------------------------ specification

Next ==
  \/ \E c \in ActiveChats, m \in Menus, args \in LoaderArgs :
       send(c, m, args)
  \/ buildLayout_enter
  \/ loader_resolves
  \/ loader_throws
  \/ loader_timeout
  \/ buildLayout_build
  \/ send_reply
  \/ send_reply_fails
  \/ render_edit
  \/ render_edit_fails
  \/ \E c \in ActiveChats, data \in CallbackData :
       \E message_id \in 0..messages[c].count : dispatch(c, data, message_id)
  \/ middleware_next
  \/ middleware_stale
  \/ middleware_call
  \/ middleware_answer
  \/ \E m \in Menus, args \in LoaderArgs : callback_navigate(m, args)
  \/ \E args \in RefreshArgs : callback_refresh(args)
  \/ callback_returns
  \/ \E e \in HandlerErrors : callback_throws(e)
  \/ callback_timeout
  \/ return

Spec == Init /\ [][Next]_vars

\* A timer that was set fires: the two timeouts are taken when they stay
\* possible.  Nothing makes a loader or a callback handler complete, or the
\* host answer a request.
SpecLive ==
  /\ Init /\ [][Next]_vars
  /\ WF_vars(callback_timeout)
  /\ WF_vars(loader_timeout)

\* --------------------------------------------------- handlers that use state

\* the handler calls ctx.menu.state.set("count", prev => prev + 1): the
\* state object in ctx.menu.state writes the entry of the menu that put it
\* there
callback_state_set ==
  /\ pc = "callbackFn"
  /\ update.menu_state # NoMenu
  /\ session[update.chat].state[update.menu_state].count < MaxCount
  /\ session' = [session EXCEPT ![update.chat] =
                    StateSet(@, update.menu_state)]
  /\ UNCHANGED <<probe, staticActionHandlersByAction,
                 dynamicActionHandlersByActionByChatId, nanoidCalls, messages,
                 update, pc, mw, call, out>>

\* the handler calls ctx.menu.state.reset()
callback_state_reset ==
  /\ pc = "callbackFn"
  /\ update.menu_state # NoMenu
  /\ session[update.chat].state[update.menu_state] # initStateFn(update.menu_state)
  /\ session' = [session EXCEPT ![update.chat] =
                    StateReset(@, update.menu_state)]
  /\ UNCHANGED <<probe, staticActionHandlersByAction,
                 dynamicActionHandlersByActionByChatId, nanoidCalls, messages,
                 update, pc, mw, call, out>>

\* The bot with handlers that change their menu's state, before or after
\* they call navigate or refresh.  Loaders resolve and the host accepts
\* what it is sent; callers pass no arguments; the buttons pressed are the
\* menus' first buttons, on the active message.
NextState ==
  \/ \E c \in ActiveChats, m \in Menus : send(c, m, JsUndefined)
  \/ buildLayout_enter
  \/ loader_resolves
  \/ buildLayout_build
  \/ send_reply
  \/ render_edit
  \/ \E c \in ActiveChats, m \in Menus :
       dispatch(c, Token(m, Place(m)), ActiveMessageId(c))
  \/ middleware_next
  \/ middleware_call
  \/ \E m \in Menus : callback_navigate(m, JsUndefined)
  \/ callback_refresh(JsUndefined)
  \/ callback_state_set
  \/ callback_state_reset
  \/ callback_returns
  \/ return

SpecState == Init /\ [][NextState]_vars

\* ------------------------------------------- a loader that resolves late

\* a buildLayout that goes on with the result of a loader that resolves
\* after the timer fired
loader_late_Applies ==
  /\ call.loader = "timeout"
  /\ \E r \in LoaderResults(call.menu) :
       session' = [session EXCEPT ![update.chat] =
                     PersistLoader(@, call.args, r.data)]
  /\ call' = [call EXCEPT !.loader = "late"]
  /\ UNCHANGED <<probe, staticActionHandlersByAction,
                 dynamicActionHandlersByActionByChatId, nanoidCalls, messages,
                 update, pc, mw, out>>

\* lines 353-369: the loader's promise resolves after the timer rejected
\* the race; the race is settled and buildLayout has thrown, so nothing
\* takes the result
loader_late ==
  /\ call.loader = "timeout"
  /\ call' = [call EXCEPT !.loader = "late"]
  /\ UNCHANGED <<probe, staticActionHandlersByAction,
                 dynamicActionHandlersByActionByChatId, session, nanoidCalls,
                 messages, update, pc, mw, out>>

\* The bot with loaders that throw, lose the race against the timer, and
\* resolve after they lost it.  The host accepts what it is sent; the
\* buttons pressed are the menus' first buttons on the active message.
NextLate ==
  \/ \E c \in ActiveChats, m \in Menus, args \in LoaderArgs :
       send(c, m, args)
  \/ buildLayout_enter
  \/ loader_resolves
  \/ loader_throws
  \/ loader_timeout
  \/ loader_late
  \/ buildLayout_build
  \/ send_reply
  \/ render_edit
  \/ \E c \in ActiveChats, m \in Menus :
       dispatch(c, Token(m, Place(m)), ActiveMessageId(c))
  \/ middleware_next
  \/ middleware_call
  \/ \E m \in Menus, args \in LoaderArgs : callback_navigate(m, args)
  \/ callback_returns
  \/ \E e \in HandlerErrors : callback_throws(e)
  \/ return

SpecLate == Init /\ [][NextLate]_vars

\* ------------------------------------ a dynamic section that never ends

\* line 186: build awaits the dynamicFn of a dynamic step; the promise of
\* this one never settles, and nothing else waits on it
dynamicFn_pending ==
  /\ pc = "build"
  /\ \E i \in DOMAIN Builder(call.menu) :
       Builder(call.menu)[i].scope = "dynamic"
  /\ pc' = "dynamicFn"
  /\ UNCHANGED <<probe, staticActionHandlersByAction,
                 dynamicActionHandlersByActionByChatId, session, nanoidCalls,
                 messages, update, mw, call, out>>

\* The bot with dynamic sections that may never complete.  Callers pass no
\* arguments, the host accepts what it is sent, and the buttons pressed are
\* the menus' first buttons on the active message.
NextPending ==
  \/ \E c \in ActiveChats, m \in Menus : send(c, m, JsUndefined)
  \/ buildLayout_enter
  \/ loader_resolves
  \/ loader_timeout
  \/ buildLayout_build
  \/ dynamicFn_pending
  \/ send_reply
  \/ render_edit
  \/ \E c \in ActiveChats, m \in Menus :
       dispatch(c, Token(m, Place(m)), ActiveMessageId(c))
  \/ middleware_next
  \/ middleware_call
  \/ \E m \in Menus : callback_navigate(m, JsUndefined)
  \/ callback_returns
  \/ callback_timeout
  \/ return

\* the timers of lines 357-367 and 433-443 fire
SpecPending ==
  /\ Init /\ [][NextPending]_vars
  /\ WF_vars(callback_timeout)
  /\ WF_vars(loader_timeout)

\* ------------------------------------------- parseAction of any string

\* what a field of the callback data of an update may be
ProbeFields == {MENU_PREFIX, Representation("callback"), MA, <<"x">>, <<>>}

\* Array.prototype.join(":")
RECURSIVE Join(_)
Join(fields) ==
  IF Len(fields) = 0 THEN <<>>
  ELSE IF Len(fields) = 1 THEN fields[1]
  ELSE fields[1] \o <<":">> \o Join(Tail(fields))

ProbeStrings ==
  { Join(f) : f \in UNION { [1..n -> ProbeFields] : n \in 1..MaxFields } }

InitParse ==
  /\ Started
  /\ \E actionString \in ProbeStrings :
       probe = [fn |-> "parseAction", returned |-> FALSE,
                action |-> actionString, parsed |-> NullAction]

\* parseAction(actionString), lines 34-62
parseAction_string ==
  /\ probe.fn = "parseAction" /\ ~probe.returned
  /\ probe' = [probe EXCEPT !.parsed = parseAction(probe.action),
                            !.returned = TRUE]
  /\ UNCHANGED <<staticActionHandlersByAction,
                 dynamicActionHandlersByActionByChatId, session, nanoidCalls,
                 messages, update, pc, mw, call, out>>

NextParse == parseAction_string

SpecParse == InitParse /\ [][NextParse]_vars

\* ------------------------------------------ two chats, updates in flight

\* A second update, of another chat, is in flight: every step of send,
\* buildLayout and middleware ends at an await, where the event loop may
\* run the other update.  The update that is not running is kept parked.
InitChats ==
  /\ Started
  /\ probe = [fn |-> "parked", returned |-> FALSE, update |-> NoUpdate,
              pc |-> "idle", mw |-> NoMw, call |-> NoCall, out |-> NoOut]

\* the event loop leaves the running update at its await and runs the other
yield ==
  /\ probe.fn = "parked"
  /\ <<probe.update, probe.pc, probe.mw, probe.call, probe.out>> #
       <<update, pc, mw, call, out>>
  /\ probe' = [probe EXCEPT !.update = update, !.pc = pc, !.mw = mw,
                            !.call = call, !.out = out]
  /\ update' = probe.update
  /\ pc' = probe.pc
  /\ mw' = probe.mw
  /\ call' = probe.call
  /\ out' = probe.out
  /\ UNCHANGED <<staticActionHandlersByAction,
                 dynamicActionHandlersByActionByChatId, session, nanoidCalls,
                 messages>>

\* the nanoid calls the parked update may still make
Reserved ==
  IF probe.call.menu = NoMenu \/ probe.call.built THEN 0
  ELSE IF probe.pc = "build"
  THEN build(probe.call.menu, Builder(probe.call.menu), probe.call.data, 0).n
  ELSE MaxMint(probe.call.menu)

\* the action strings of menu m for every nanoid call made so far
TokensSoFar(m) == { Token(m, i) : i \in 1..nanoidCalls }

\* The bot in two chats: menu A is sent to either chat and buttons are
\* pressed in either chat, carrying any action string of menu A made so
\* far, also one made for the other chat.  Loaders resolve and the host
\* accepts what it is sent.
NextChats ==
  \/ \E c \in Chats :
       /\ c # probe.update.chat
       /\ nanoidCalls + MaxMint(MA) + Reserved <= MaxNanoid
       /\ send(c, MA, JsUndefined)
  \/ buildLayout_enter
  \/ loader_resolves
  \/ buildLayout_build
  \/ send_reply
  \/ \E c \in Chats, data \in TokensSoFar(MA) :
       /\ c # probe.update.chat
       /\ ActiveMessageId(c) # UndefinedId
       /\ dispatch(c, data, ActiveMessageId(c))
  \/ middleware_next
  \/ middleware_call
  \/ callback_returns
  \/ return
  \/ yield

SpecChats == InitChats /\ [][NextChats]_vars

\* ----------------------------------------- two sends in flight, one chat

\* the messages the parked update may still send
ReservedMessages ==
  IF probe.call.via = "send" /\ probe.call.returned = "no" THEN 1 ELSE 0

\* The bot with two sends of menu A in one chat in flight, with different
\* arguments, that may yield to each other at every await.  Loaders
\* resolve and the host accepts what it is sent.
NextSameChat ==
  \/ \E c \in ActiveChats, args \in LoaderArgs :
       /\ probe.call.menu # NoMenu => args # probe.call.args
       /\ messages[c].count + ReservedMessages < MaxMessages
       /\ nanoidCalls + MaxMint(MA) + Reserved <= MaxNanoid
       /\ send(c, MA, args)
  \/ buildLayout_enter
  \/ loader_resolves
  \/ buildLayout_build
  \/ send_reply
  \/ return
  \/ yield

SpecSameChat == InitChats /\ [][NextSameChat]_vars

\* ------------------------------------------- handlers that call refresh

\* Menu A's loader takes an object of two optional keys, menu B's a
\* string; null stands for a value read back from a session store.
LoaderArgsOf(m) ==
  IF m = MA
  THEN {JsUndefined, JsObject([resetCount |-> "false", other |-> "x"]),
        JsObject([resetCount |-> "absent", other |-> "x"])}
  ELSE {JsUndefined, JsNull, JsString("p")}

\* what a handler of menu m may pass to refresh: a Partial of the loader's
\* arguments
RefreshArgsOf(m) ==
  IF m = MA
  THEN {JsUndefined, JsObject([resetCount |-> "true", other |-> "absent"]),
        JsObject([resetCount |-> "absent", other |-> "y"])}
  ELSE {JsUndefined, JsString("s")}

\* The bot with handlers that call refresh with and without an override.
\* Loaders resolve and the host accepts what it is sent; the button pressed
\* is the first button of the menu the active message shows.
NextRefresh ==
  \/ \E c \in ActiveChats, m \in Menus :
       \E args \in LoaderArgsOf(m) : send(c, m, args)
  \/ buildLayout_enter
  \/ loader_resolves
  \/ buildLayout_build
  \/ send_reply
  \/ render_edit
  \/ \E c \in ActiveChats, m \in Menus :
       /\ Shown(c, ActiveMessageId(c)) = m
       /\ dispatch(c, Token(m, Place(m)), ActiveMessageId(c))
  \/ middleware_next
  \/ middleware_call
  \/ \E args \in RefreshArgsOf(mw.menu) : callback_refresh(args)
  \/ callback_returns
  \/ return

SpecRefresh == Init /\ [][NextRefresh]_vars

\* ----------------------------------------- LayoutBuilder.build on its own

\* what a layout function may do at each of its calls on the builder: add a
\* callback button, break the row, or add one of the dynamic sections (one
\* that adds nothing, and those of DynamicCalls)
OpKinds ==
  {"callback", "url", "row", "none", "xy", "innerA", "xRowY", "listA"}
Texts == <<"s1", "s2", "s3", "s4", "s5", "s6">>

\* the builder calls of a layout function that does kinds[i] at its i-th call
OpsOf(kinds) ==
  [i \in DOMAIN kinds |->
     CASE kinds[i] = "callback" -> Call("callback", Texts[i], "fn")
       [] kinds[i] = "url" -> Call("url", Texts[i], "")
       [] kinds[i] = "row" -> Call("row", "", "")
       [] OTHER -> Call("dynamic", "", kinds[i])]

InitBuild ==
  /\ Started
  /\ \E k \in 0..MaxSteps : \E kinds \in [1..k -> OpKinds] :
       probe = [fn |-> "build", returned |-> FALSE, ops |-> OpsOf(kinds),
                data |-> JsString("d2"),
                result |-> [keyboard |-> <<>>, staticHandlers |-> <<>>,
                            dynamicHandlers |-> <<>>, n |-> 0]]

\* the layout function runs on a new builder (createMenu, lines 509-516),
\* then the builder's build is called (lines 371-374)
build_call ==
  /\ probe.fn = "build" /\ ~probe.returned
  /\ LET builder == ApplyCalls(MA, probe.ops, <<>>, 0) IN
       probe' = [probe EXCEPT
                   !.result = build(MA, builder.steps, probe.data, builder.n),
                   !.returned = TRUE]
  /\ UNCHANGED <<staticActionHandlersByAction,
                 dynamicActionHandlersByActionByChatId, session, nanoidCalls,
                 messages, update, pc, mw, call, out>>

NextBuild == build_call

SpecBuild == InitBuild /\ [][NextBuild]_vars

\* ------------------------------------------------- the token codec on its own

\* the ids the codec is called with: the menus' ids and the ids nanoid hands
\* out, and short strings with and without the delimiter, the empty one
\* among them
ProbeChars == {"a", "b", ":"}
ProbeIds ==
  {<<>>} \cup { <<x>> : x \in ProbeChars }
    \cup { <<x, y>> : x \in ProbeChars, y \in ProbeChars }
    \cup Menus \cup { nanoid(i) : i \in 1..MaxNanoid }

InitCodec ==
  /\ Started
  /\ \E sourceId \in ProbeIds, targetId \in ProbeIds :
       probe = [fn |-> "buildAction", returned |-> FALSE,
                sourceId |-> sourceId, targetId |-> targetId,
                action |-> <<>>, parsed |-> NullAction, owned |-> FALSE]

\* buildAction("callback", sourceId, targetId), lines 30-32
buildAction_call ==
  /\ probe.fn = "buildAction" /\ ~probe.returned
  /\ probe' = [probe EXCEPT
                 !.action = buildAction("callback", probe.sourceId,
                                        probe.targetId),
                 !.returned = TRUE]
  /\ UNCHANGED <<staticActionHandlersByAction,
                 dynamicActionHandlersByActionByChatId, session, nanoidCalls,
                 messages, update, pc, mw, call, out>>

\* parseAction of the action string built, lines 34-62, and the owner check
\* of lines 399-404 by the menu whose id is sourceId, for a handler
\* registered under that string
parseAction_call ==
  /\ probe.fn = "buildAction" /\ probe.returned
  /\ probe' = [probe EXCEPT
                 !.fn = "parseAction",
                 !.parsed = parseAction(probe.action),
                 !.owned = Owns(probe.sourceId,
                                [found |-> TRUE,
                                 actionHandler |->
                                   [action |-> probe.action,
                                    callbackFn |-> "fn"]])]
  /\ UNCHANGED <<staticActionHandlersByAction,
                 dynamicActionHandlersByActionByChatId, session, nanoidCalls,
                 messages, update, pc, mw, call, out>>

NextCodec == buildAction_call \/ parseAction_call

SpecCodec == InitCodec /\ [][NextCodec]_vars

\* ------------------------------------------------------------------ claims

\* what the update being handled is
IsCallbackQuery == update.kind = "callback_query"
IsSend == update.kind = "command"

\* the texts a menu is configured with, the library's default for none
ConfiguredStaleText(m) ==
  IF Options(m).staleErrorText = UndefinedText
  THEN "The menu is stalled" ELSE Options(m).staleErrorText
ConfiguredTimeoutText(m) ==
  IF Options(m).timeoutErrorText = UndefinedText
  THEN "The action took too long to execute"
  ELSE Options(m).timeoutErrorText

\* how many times menu m called next for the update
NextCalls(m) == Cardinality({ i \in DOMAIN out.next : out.next[i] = m })

\* C1: an update that resolves to a handler of menu m but is for another
\* message than the active one is answered with one visible alert whose
\* text is m's configured staleErrorText (the default when none is
\* configured); no callback handler is called, m does not call next, and
\* no error is raised.
C1_StaleIsAnswered ==
  (pc = "done" /\ IsCallbackQuery) =>
    \A m \in out.owners :
      update.message_id # out.activeBefore =>
        /\ out.answers =
             <<[show_alert |-> TRUE, text |-> ConfiguredStaleText(m)]>>
        /\ out.invoked = <<>>
        /\ NextCalls(m) = 0
        /\ out.raised = NoError

\* a press on the first message after a second send was answered as stale
C1_Witness ==
  /\ pc = "done" /\ IsCallbackQuery
  /\ update.message_id = 1 /\ out.activeBefore = 2
  /\ MB \in out.owners
  /\ out.answers = <<[show_alert |-> TRUE, text |-> ""]>>

\* C2: a callback handler of menu A is never called for a press on a
\* message that navigate switched from A to another menu.
C2_OnlyShownMenuHandles ==
  \A i \in DOMAIN out.invoked :
    LET inv == out.invoked[i] IN
    ~(inv.menu \in inv.previously /\ inv.shown # inv.menu)

\* C3: a navigate or refresh called from a callback handler leaves the
\* chat's activeMessageId as it was when the call was made, while it runs
\* and after it returned or threw.
C3_RenderKeepsActive ==
  call.via \in {"navigate", "refresh"} =>
    ActiveMessageId(update.chat) = call.activeBefore

\* a navigate to another menu returned; the message is still the active one
C3_Witness ==
  /\ call.via = "navigate" /\ call.returned = "ok"
  /\ call.menu # mw.menu
  /\ call.activeBefore = 1
  /\ Shown(update.chat, 1) = call.menu

\* C4 as claimed: when send returns, activeMessageId is the id of the
\* message the call sent.
C4_SendAlwaysSetsActive ==
  (pc = "done" /\ IsSend) =>
    /\ Len(out.replies) = 1
    /\ ActiveMessageId(update.chat) = out.replies[1].message_id

\* C4, amended: when send returns after the host accepted the menu message,
\* activeMessageId is the id of that message, which is a new one (a second
\* send overwrites what the first recorded); when the loader threw or timed
\* out, or the host rejected the menu message, the one message sent is the
\* error text and activeMessageId is what it was before the call.
C4_SendSetsActiveOnSuccess ==
  (pc = "done" /\ IsSend) =>
    /\ Len(out.replies) = 1
    /\ out.replies[1].message_id = messages[update.chat].count
    /\ out.replies[1].message_id # out.activeBefore
    /\ IF out.replies[1].menu # NoMenu
       THEN /\ out.replies[1].menu = call.menu
            /\ ActiveMessageId(update.chat) = out.replies[1].message_id
       ELSE ActiveMessageId(update.chat) = out.activeBefore

\* a second send of the same menu returned and its message is the active one
C4_Witness ==
  /\ pc = "done" /\ IsSend
  /\ out.activeBefore = 1
  /\ out.replies = <<[message_id |-> 2, text |-> "text A", menu |-> MA]>>
  /\ ActiveMessageId(update.chat) = 2

\* C5: a menu whose static map and whose dynamic map for the chat both lack
\* the update's callback data (data of another menu, foreign data, no data)
\* calls next once when the update reaches it, calls no handler and answers
\* nothing; an update that no menu has a handler for passes the whole
\* chain unanswered.
C5_UnknownGoesToNext ==
  (pc = "done" /\ IsCallbackQuery) =>
    /\ \A m \in Menus \ out.owners :
         /\ mw.menu # m
         /\ \A i \in DOMAIN out.invoked : out.invoked[i].menu # m
         /\ (mw.menu = NoMenu \/ Place(m) < Place(mw.menu)) => NextCalls(m) = 1
         /\ NextCalls(m) <= 1
    /\ out.owners = {} =>
         /\ out.next = Chain
         /\ out.answers = <<>>
         /\ out.invoked = <<>>
         /\ out.raised = NoError

\* menu A passed on a press of menu B's button, which B then handled
C5_Witness ==
  /\ pc = "done" /\ IsCallbackQuery
  /\ out.owners = {MB}
  /\ out.next = <<MA>>
  /\ Len(out.invoked) = 1 /\ out.invoked[1].menu = MB

\* C6: when the callback handler throws, the update is answered with one
\* visible alert carrying the error's message ("Unknown error" for a value
\* without one) and the same error is raised to the host; when it loses the
\* race against the timer, the alert and the error raised carry the menu's
\* timeout text; when it returns, the update is answered once, silently,
\* and nothing is raised.
C6_HandlerOutcome ==
  (pc = "done" /\ IsCallbackQuery /\ out.invoked # <<>>) =>
    CASE out.handler = "threw" ->
           /\ out.answers =
                <<[show_alert |-> TRUE,
                   text |-> IF out.thrown.message = UndefinedText
                            THEN "Unknown error" ELSE out.thrown.message]>>
           /\ out.raised = out.thrown
           /\ out.raised.thrown
      [] out.handler = "timeout" ->
           /\ out.answers =
                <<[show_alert |-> TRUE,
                   text |-> ConfiguredTimeoutText(mw.menu)]>>
           /\ out.raised = Error(ConfiguredTimeoutText(mw.menu))
      [] out.handler = "returned" ->
           /\ out.answers = <<[show_alert |-> FALSE, text |-> UndefinedText]>>
           /\ out.raised = NoError
      [] OTHER -> FALSE

\* a handler threw, the user saw its message and the host got the error
C6_Witness ==
  /\ pc = "done" /\ IsCallbackQuery
  /\ out.handler = "threw"
  /\ out.raised = Error("handler failed")
  /\ out.answers = <<[show_alert |-> TRUE, text |-> "handler failed"]>>

\* C7: an update that a menu took as its own (it resolved to one of the
\* menu's handlers) and that is for the active message is eventually
\* answered, exactly once, whether or not the callback handler ever
\* completes; when the handler lost the race against the timer, the answer
\* is a visible alert with the menu's configured timeoutErrorText (the
\* default when none is configured).
C7_EventuallyAcknowledged ==
  (IsCallbackQuery /\ mw.menu # NoMenu /\ update.message_id = out.activeBefore)
    ~> (/\ pc = "done"
        /\ Len(out.answers) = 1
        /\ out.handler = "timeout" =>
              out.answers[1] =
                [show_alert |-> TRUE, text |-> ConfiguredTimeoutText(mw.menu)])

\* a handler that was waiting for a loader lost the race, and the user was
\* shown the configured timeout text
C7_Witness ==
  /\ pc = "done" /\ IsCallbackQuery
  /\ update.message_id = out.activeBefore
  /\ out.handler = "timeout"
  /\ call.via = "navigate" /\ call.loader = "pending"
  /\ mw.menu = MB
  /\ out.answers = <<[show_alert |-> TRUE, text |-> "B timed out"]>>

MintedByCall == (call.nanoidBefore + 1)..nanoidCalls

\* the nanoid calls of all renders so far
MintedByRenders == (Created.n + 1)..nanoidCalls

DeclaredIn(text) ==
  CASE text = "X" -> "onX" [] text = "Y" -> "onY" [] OTHER -> "undefined"

\* C10: every menu's static handler map is, in every state, the map its
\* constructor built from the layout function's own callback buttons; once
\* a render built its layout, every action string minted in a dynamic
\* section, nested ones included, is a key of the menu's dynamic map for
\* the chat, with the callback it was declared with, and is a key of no
\* menu's static map.
C10_StaticMapFixed ==
  /\ \A m \in Menus :
       /\ staticActionHandlersByAction[m] = StaticActionHandlerMap(m)
       /\ DOMAIN staticActionHandlersByAction[m] \subseteq
            { Token(m, i) : i \in 1..Created.n }
  /\ call.built =>
       \A i \in MintedByCall :
         LET action == Token(call.menu, i) IN
         /\ action \in DOMAIN DynamicMap(call.menu, update.chat)
         /\ \E r \in DOMAIN call.keyboard :
              \E b \in DOMAIN call.keyboard[r] :
                LET button == call.keyboard[r][b] IN
                /\ button.callback_data = action
                /\ DynamicMap(call.menu, update.chat)[action].callbackFn =
                     DeclaredIn(button.text)
         /\ \A m \in Menus :
              action \notin DOMAIN staticActionHandlersByAction[m]

\* a render whose dynamic section holds a nested one: the buttons of both
\* are in the dynamic map, the static maps are as constructed
C10_Witness ==
  /\ call.built
  /\ call.menu = MA /\ call.data = JsString("d2")
  /\ { h.callbackFn : h \in
        { DynamicMap(MA, update.chat)[a] :
            a \in DOMAIN DynamicMap(MA, update.chat) } } = {"onX", "onY"}
  /\ DOMAIN staticActionHandlersByAction[MA] = {Token(MA, 1)}

\* an id that is not empty and holds no delimiter
WellFormed(id) == id # <<>> /\ \A k \in DOMAIN id : id[k] # ":"

\* C20: for a menu id and an instance id that are not empty and hold no
\* ":", parsing the action string built from them gives back the action
\* "callback", the menu id and the instance id, and the owner check of the
\* menu with that id accepts a handler registered under the string; every
\* key of a menu's static map and of its dynamic maps parses to that menu.
C20_RoundTrip ==
  /\ (probe.fn = "parseAction" /\ WellFormed(probe.sourceId)
        /\ WellFormed(probe.targetId)) =>
       /\ probe.parsed = [ok |-> TRUE, action |-> "callback",
                          sourceId |-> probe.sourceId,
                          targetId |-> probe.targetId]
       /\ probe.owned
  /\ \A m \in Menus :
       \A key \in DOMAIN staticActionHandlersByAction[m]
                  \cup UNION { DOMAIN DynamicMap(m, c) : c \in Chats } :
         /\ parseAction(key).ok
         /\ parseAction(key).sourceId = m
         /\ parseAction(key).action = "callback"

\* the action string of menu A's button with the fourth id was built and
\* parsed back
C20_Witness ==
  /\ probe.fn = "parseAction"
  /\ probe.sourceId = MA /\ probe.targetId = nanoid(4)
  /\ probe.action = Token(MA, 4)
  /\ probe.parsed.ok /\ probe.parsed.targetId = nanoid(4)
  /\ probe.owned

\* what the builder calls declare, in their order, the calls of dynamic
\* sections in the place of the section: "button" or "row"
RECURSIVE Declared(_, _)
Declared(ops, data) ==
  IF ops = <<>> THEN <<>>
  ELSE LET o == Head(ops) IN
    (CASE o.op = "row" -> <<"row">>
       [] o.op = "dynamic" -> Declared(DynamicCalls(o.fn, data), data)
       [] OTHER -> <<"button">>)
      \o Declared(Tail(ops), data)

\* how many buttons the first i declarations hold
ButtonsIn(d, i) == Cardinality({ k \in 1..i : d[k] = "button" })

\* how many buttons the first r rows of a grid hold
RECURSIVE ButtonsInRows(_, _)
ButtonsInRows(grid, r) ==
  IF r = 0 THEN 0 ELSE ButtonsInRows(grid, r - 1) + Len(grid[r])

\* the row of a grid that holds its k-th button
RowOf(grid, k) ==
  CHOOSE r \in DOMAIN grid :
    ButtonsInRows(grid, r - 1) < k /\ k <= ButtonsInRows(grid, r)

\* the texts of a grid's buttons
TextGrid(grid) ==
  [r \in DOMAIN grid |-> [b \in DOMAIN grid[r] |-> grid[r][b].text]]

\* C17: the grid holds the declared buttons in their order, and no button
\* declared after a row break is in the row of a button declared before it,
\* whether the break is declared by the layout function or inside a dynamic
\* section.
C17_RowBreakSeparates ==
  (probe.fn = "build" /\ probe.returned) =>
    LET d == Declared(probe.ops, probe.data)
        grid == probe.result.keyboard
    IN /\ ButtonsInRows(grid, Len(grid)) = ButtonsIn(d, Len(d))
       /\ \A i, j, l \in DOMAIN d :
            (i < j /\ j < l /\ d[i] = "button" /\ d[j] = "row"
               /\ d[l] = "button") =>
              RowOf(grid, ButtonsIn(d, i)) # RowOf(grid, ButtonsIn(d, l))

\* the callback data of a row's buttons
DataIn(line) == { line[b].callback_data : b \in DOMAIN line }

\* the calls up to, and the call at, the last place of a layout function
Front(ops) == SubSeq(ops, 1, Len(ops) - 1)
Last(ops) == ops[Len(ops)]

\* C18: when the layout function's last call adds a dynamic section and the
\* call before it added a button, the grid is the grid of the calls before
\* the section with the section's first row added to its last row and the
\* section's other rows after it; the static handlers are those of the
\* calls before the section, and the dynamic handlers are those of the
\* calls before the section and then one for each button of the section,
\* under that button's callback data.
C18_DynamicSplices ==
  (/\ probe.fn = "build" /\ probe.returned
   /\ Len(probe.ops) >= 2
   /\ Last(probe.ops).op = "dynamic"
   /\ probe.ops[Len(probe.ops) - 1].op = "callback") =>
    LET before == ApplyCalls(MA, Front(probe.ops), <<>>, 0)
        outer == build(MA, before.steps, probe.data, before.n)
        section ==
          build(MA, ApplyCalls(MA, DynamicCalls(Last(probe.ops).fn,
                                                probe.data),
                               <<>>, 0).steps,
                probe.data, 0)
        head == SubSeq(outer.keyboard, 1, Len(outer.keyboard) - 1)
        current == outer.keyboard[Len(outer.keyboard)]
        grid == probe.result.keyboard
        added ==
          UNION { DataIn(grid[r]) :
                    r \in { x \in DOMAIN grid : x >= Len(outer.keyboard) } }
            \ UNION { DataIn(outer.keyboard[r]) : r \in DOMAIN outer.keyboard }
    IN /\ TextGrid(grid) =
            IF section.keyboard = <<>> THEN TextGrid(outer.keyboard)
            ELSE TextGrid(head)
                   \o << TextGrid(<<current>>)[1]
                          \o TextGrid(section.keyboard)[1] >>
                   \o Tail(TextGrid(section.keyboard))
       /\ probe.result.staticHandlers = outer.staticHandlers
       /\ Len(probe.result.dynamicHandlers) =
            Len(outer.dynamicHandlers) + Cardinality(added)
       /\ SubSeq(probe.result.dynamicHandlers, 1,
                 Len(outer.dynamicHandlers)) = outer.dynamicHandlers
       /\ { probe.result.dynamicHandlers[k].action :
              k \in (Len(outer.dynamicHandlers) + 1)
                      ..Len(probe.result.dynamicHandlers) } = added
       /\ \A k \in DOMAIN probe.result.staticHandlers :
            probe.result.staticHandlers[k].action \notin added

\* a button, then a section of two buttons: one row of three, the section's
\* two handlers in the dynamic registry
C18_Witness ==
  /\ probe.fn = "build" /\ probe.returned
  /\ probe.ops = <<Call("callback", "s1", "fn"), Call("dynamic", "", "xy")>>
  /\ TextGrid(probe.result.keyboard) = << <<"s1", "X", "Y">> >>
  /\ Len(probe.result.dynamicHandlers) = 2
  /\ Len(probe.result.staticHandlers) = 1

\* C19: no row of the grid is empty, whatever the calls were; a layout
\* function that makes no call gives an empty grid and no handlers.
C19_NoEmptyRow ==
  (probe.fn = "build" /\ probe.returned) =>
    /\ \A r \in DOMAIN probe.result.keyboard :
         Len(probe.result.keyboard[r]) > 0
    /\ probe.ops = <<>> =>
         /\ probe.result.keyboard = <<>>
         /\ probe.result.staticHandlers = <<>>
         /\ probe.result.dynamicHandlers = <<>>

\* row breaks before, between and after, and a section that adds nothing
\* between them: the grid is empty
C19_Witness ==
  /\ probe.fn = "build" /\ probe.returned
  /\ probe.ops = <<Call("row", "", ""), Call("dynamic", "", "none"),
                   Call("row", "", "")>>
  /\ probe.result.keyboard = <<>>

\* C14: the data a callback handler of menu m is called with is the data
\* m's own loader returned when m was last built for the chat.
C14_OwnLoaderData ==
  \A i \in DOMAIN out.invoked :
    out.invoked[i].data = out.invoked[i].own

\* C12: a step changes the state a menu has stored for a chat only while a
\* callback handler of that menu runs, or when the menu's own onEnter
\* resets it as the menu is entered; no other step (a send, navigate or
\* refresh of another menu, a handler of another menu) changes it.
C12_StateOfOthersKept ==
  [][\A c \in Chats : \A m \in Menus :
       (session[c].state[m].defined
          /\ session'[c].state[m] # session[c].state[m]) =>
         \/ pc = "callbackFn" /\ mw.menu = m
         \/ pc = "buildLayout" /\ call.menu = m /\ onEnterFn(m) = "reset"]_vars

\* C13: getState calls a menu's state function at most once for a chat, and
\* has called it exactly when the menu's entry holds a state.
C13_InitializedOnce ==
  \A c \in Chats : \A m \in Menus :
    /\ session[c].lazyInits[m] <= 1
    /\ session[c].lazyInits[m] = 1 <=> session[c].state[m].defined

\* menu A is entered again after a handler took its count to 2: the loader
\* sees the count 2 and the state function was called once
C13_Witness ==
  /\ pc = "loaderFn"
  /\ call.menu = MA /\ call.via = "navigate" /\ mw.menu = MB
  /\ call.stateAtLoader = StateObject(2)
  /\ session[update.chat].lazyInits[MA] = 1

\* C16: the loader of a refresh sees the state the handler left when it
\* called refresh.
C16_RefreshKeepsState ==
  (call.via = "refresh" /\ pc = "loaderFn") =>
    call.stateAtLoader = call.stateAtCall

\* C15: refresh renders the handler's own menu; with object arguments
\* persisted it renders with those arguments where each key the override
\* gives takes the override's value and every other key keeps its value;
\* with anything else persisted it renders with the override when one is
\* given and with the persisted arguments when none is.
C15_RefreshMerges ==
  call.via = "refresh" =>
    /\ call.menu = mw.menu
    /\ IF call.sessionArgs.type = "object"
       THEN /\ call.args.type = "object"
            /\ \A k \in Keys :
                 call.args.obj[k] =
                   IF call.partial.obj[k] # "absent"
                   THEN call.partial.obj[k] ELSE call.sessionArgs.obj[k]
       ELSE IF call.partial.type = "undefined"
            THEN call.args = call.sessionArgs
            ELSE call.args = call.partial

\* refresh({resetCount: true}) after {resetCount: false, other: "x"} runs
\* the loader with {resetCount: true, other: "x"}
C15_Witness ==
  /\ pc = "loaderFn" /\ call.via = "refresh" /\ call.menu = MA
  /\ call.sessionArgs = JsObject([resetCount |-> "false", other |-> "x"])
  /\ call.partial = JsObject([resetCount |-> "true", other |-> "absent"])
  /\ call.args = JsObject([resetCount |-> "true", other |-> "x"])

\* the nanoid calls that builds for chat c made
MintedIn(c) == session[c].minted

\* C11: a dynamic handler that a press in a chat reaches was made by a build
\* for that chat and by no build for another chat; and a step of an update
\* changes the dynamic handler map and the session of no chat but the
\* update's own, however the updates of two chats interleave.
C11_DynamicPerChat ==
  /\ [](\A i \in DOMAIN out.invoked :
          LET inv == out.invoked[i] IN
            inv.action \notin DOMAIN staticActionHandlersByAction[inv.menu] =>
              /\ \E k \in MintedIn(update.chat) :
                   inv.action = Token(inv.menu, k)
              /\ \A c \in Chats \ {update.chat} : \A k \in MintedIn(c) :
                   inv.action # Token(inv.menu, k))
  /\ [][\A c \in Chats :
          (\/ session'[c] # session[c]
           \/ \E m \in Menus : DynamicMap(m, c)' # DynamicMap(m, c)) =>
            \/ update.chat = c
            \/ pc = "idle" /\ update'.chat = c]_vars

\* while chat c1's send waits for the host, a press in chat c2 carries the
\* action string of a dynamic button of c1's keyboard and no menu takes it;
\* c2 has a dynamic handler map of its own
C11_Witness ==
  /\ probe.fn = "parked" /\ probe.update.chat = "c1" /\ probe.pc = "reply"
  /\ update.chat = "c2" /\ update.kind = "callback_query" /\ pc = "done"
  /\ update.data \in DOMAIN DynamicMap(MA, "c1")
  /\ DOMAIN DynamicMap(MA, "c2") # {}
  /\ out.invoked = <<>> /\ Len(out.next) = Len(Chain)

\* actionString is what buildAction returns for some menu id and some
\* instance id (any strings; the instance id may be absent)
Produced(actionString) ==
  \E j \in 9..Len(actionString), k \in 1..(Len(actionString) + 1) :
    buildAction("callback", SubSeq(actionString, 10, j),
                SubSeq(actionString, k, Len(actionString))) = actionString

\* C21: parseAction returns null for every string that buildAction does not
\* return for any ids.
C21_NullUnlessBuilt ==
  (probe.fn = "parseAction" /\ probe.returned /\ "parsed" \in DOMAIN probe
     /\ ~Produced(probe.action)) => ~probe.parsed.ok

\* C22: a navigate or refresh never ends by throwing to the callback
\* handler that called it.
C22_NavigateNeverThrows ==
  call.via \in {"navigate", "refresh"} => call.returned # "threw"

\* C23: when the loader throws during send, the error's message is replied
\* to the chat and the error is raised to the caller of send.
C23_SendRaisesLoaderError ==
  (call.via = "send" /\ call.loader = "threw" /\ pc = "done") =>
    /\ \E i \in DOMAIN out.replies : out.replies[i].text = call.error.message
    /\ out.raised = call.error

\* s is a subsequence of order and repeats no step: its steps happened one
\* after the other in the order given
InOrder(s, order) ==
  \A i \in DOMAIN s : \A j \in DOMAIN s :
    i < j =>
      \E a \in DOMAIN order : \E b \in DOMAIN order :
        a < b /\ order[a] = s[i] /\ order[b] = s[j]

C25_DynamicTimesOut ==
  (pc = "dynamicFn" /\ call.via \in {"send", "navigate"})
    ~> /\ call.returned \in {"caught", "threw"}
       /\ call.error = Error(timeoutErrorText(call.menu))

\* what a render persists for chat c: the active message, the loader's
\* arguments and data, and each menu's dynamic handler map
RenderContext(c) ==
  [activeMessageId |-> session[c].activeMessageId,
   activeMenuLoaderArgs |-> session[c].activeMenuLoaderArgs,
   activeMenuLoaderData |-> session[c].activeMenuLoaderData,
   dynamic |-> [m \in Menus |-> DynamicMap(m, c)]]

LoaderFailed(l) == l \in {"threw", "timeout", "late"}

\* C26: no step of a send or navigate before its loader has resolved, and
\* no step of one whose loader threw or lost the race, changes what the
\* last render persisted for the chat; the late completion of a loader
\* that lost the race changes none of it and sends no message.
C26_FailedLoaderKeepsContext ==
  [][/\ (\/ pc \in {"buildLayout", "loaderFn"}
         \/ LoaderFailed(call.loader) \/ LoaderFailed(call'.loader)) =>
          \A c \in Chats : RenderContext(c)' = RenderContext(c)
     /\ (call.loader = "timeout" /\ call'.loader = "late") =>
          messages' = messages /\ out' = out]_vars

\* the loader of a navigate to menu B resolved after it had lost the race,
\* while message 1 shows menu A with the data "d2" and A's dynamic handlers
C26_Witness ==
  /\ call.via = "navigate" /\ call.menu = MB /\ call.loader = "late"
  /\ ActiveMessageId(update.chat) = 1
  /\ Shown(update.chat, 1) = MA
  /\ session[update.chat].activeMenuLoaderData = JsString("d2")
  /\ session[update.chat].activeMenuLoaderArgs.type = "object"
  /\ Cardinality(DOMAIN DynamicMap(MA, update.chat)) = 2

\* C27: every callback button of the keyboard the chat's active message
\* displays resolves to a handler in the static map of the menu displayed
\* or in its dynamic map for the chat.
C27_DisplayedButtonsResolve ==
  \A c \in Chats :
    (pc \in {"idle", "callbackFn"} /\ ActiveMessageId(c) # UndefinedId) =>
      \A data \in messages[c].last.callback_data :
        ActiveMessageId(c) = messages[c].last.message_id =>
          Resolve(messages[c].last.menu, c, data).found

\* C28: a callback handler is called only for a press whose message is the
\* chat's active message, and never while the chat has no active message.
C28_InvokedOnlyOnActive ==
  \A i \in DOMAIN out.invoked :
    /\ out.invoked[i].activeMessageId # UndefinedId
    /\ out.invoked[i].message_id = out.invoked[i].activeMessageId

\* the menus whose middleware ran for the update
Ran(m) == NextCalls(m) > 0 \/ mw.menu = m

PassedOn(m) ==
  /\ NextCalls(m) = 1 /\ mw.menu # m
  /\ \A i \in DOMAIN out.invoked : out.invoked[i].menu # m

AnsweredStale(m) ==
  /\ mw.menu = m /\ NextCalls(m) = 0
  /\ update.message_id # out.activeBefore
  /\ out.answers = <<[show_alert |-> TRUE, text |-> ConfiguredStaleText(m)]>>
  /\ out.invoked = <<>>

Handled(m) ==
  /\ mw.menu = m /\ NextCalls(m) = 0
  /\ update.message_id = out.activeBefore
  /\ Len(out.invoked) <= 1
  /\ \A i \in DOMAIN out.invoked : out.invoked[i].menu = m
  /\ Len(out.answers) = 1
  /\ out.answers[1].show_alert = (out.raised # NoError)

\* C29: when an update has been through the chain, every menu whose
\* middleware ran either called next once, answering nothing and calling
\* no handler; or answered one stale alert, calling no handler and not
\* next; or called at most one handler and answered once, silently when
\* nothing was raised and with an alert otherwise, not calling next.  At
\* most one menu holds a handler for the update, only that menu does other
\* than call next, and when none does there is no answer.
C29_OneOutcomePerMenu ==
  (pc = "done" /\ IsCallbackQuery) =>
    /\ \A m \in Menus :
         Ran(m) =>
           Cardinality({ o \in {"next", "stale", "handled"} :
                           \/ o = "next" /\ PassedOn(m)
                           \/ o = "stale" /\ AnsweredStale(m)
                           \/ o = "handled" /\ Handled(m) }) = 1
    /\ Cardinality(out.owners) <= 1
    /\ mw.menu # NoMenu => out.owners = {mw.menu}
    /\ mw.menu = NoMenu =>
         out.answers = <<>> /\ out.invoked = <<>> /\ out.next = Chain

\* menu A passed on a press of menu B's first button on the active message;
\* B's handler threw, and B answered with an alert
C29_Witness ==
  /\ pc = "done" /\ IsCallbackQuery
  /\ PassedOn(MA) /\ Handled(MB)
  /\ Len(out.invoked) = 1 /\ out.handler = "threw"
  /\ out.answers[1].show_alert

\* what the send with call record w left for chat c is what the chat holds
StemsFrom(c, w) ==
  /\ session[c].activeMenuLoaderArgs = w.args
  /\ session[c].activeMenuLoaderData = w.data
  /\ DynamicMap(w.menu, c) = MapOf(w.dynamicHandlers, EmptyMap)

\* C30: when two sends of one chat that ran interleaved have both
\* completed, the loader arguments, the loader data and the dynamic handler
\* map the chat holds are those of the send whose message is the chat's
\* active message.
C30_SameSendWins ==
  (/\ probe.fn = "parked"
   /\ pc = "done" /\ probe.pc = "done"
   /\ call.via = "send" /\ probe.call.via = "send"
   /\ call.returned = "ok" /\ probe.call.returned = "ok"
   /\ update.chat = probe.update.chat) =>
    LET c == update.chat IN
      /\ out.replies[1].message_id = ActiveMessageId(c) => StemsFrom(c, call)
      /\ probe.out.replies[1].message_id = ActiveMessageId(c) =>
           StemsFrom(c, probe.call)

\* the callback data of the buttons that menu m's layout declares with
\* callback(text) and no callbackFn
WithoutCallbackFn(m) ==
  { Builder(m)[i].buttons[1].button.callback_data :
      i \in { k \in DOMAIN Layout(m) :
                /\ Layout(m)[k].op = "callback"
                /\ Layout(m)[k].fn = "undefined" } }

\* C32: no handler map of a menu has an entry for a button declared
\* without a callbackFn, and a press of such a button on the active
\* message is passed on by every menu and answered by none.
C32_NoCallbackFnNotOwned ==
  (/\ pc = "done" /\ IsCallbackQuery
   /\ update.message_id = out.activeBefore
   /\ \E m \in Menus : update.data \in WithoutCallbackFn(m)) =>
    /\ \A m \in Menus :
         update.data \notin DOMAIN staticActionHandlersByAction[m]
    /\ out.next = Chain
    /\ out.answers = <<>>

\* the kinds and texts of the buttons that calls declare, in the order of
\* the calls, those of a dynamic section at the place of its call
RECURSIVE DeclaredButtons(_, _)
DeclaredButtons(ops, data) ==
  IF ops = <<>> THEN <<>>
  ELSE LET o == Head(ops) IN
    (CASE o.op = "row" -> <<>>
       [] o.op = "dynamic" -> DeclaredButtons(DynamicCalls(o.fn, data), data)
       [] o.op = "callback" -> <<[kind |-> "text", text |-> o.text]>>
       [] OTHER -> <<[kind |-> o.op, text |-> o.text]>>)
      \o DeclaredButtons(Tail(ops), data)

\* the buttons of a grid, row by row, left to right
RECURSIVE Flatten(_)
Flatten(grid) ==
  IF grid = <<>> THEN <<>> ELSE Head(grid) \o Flatten(Tail(grid))

\* C31: the buttons of the grid, read row by row, are the declared buttons
\* in the order of declaration, a dynamic section's buttons at the place of
\* its call; the callback buttons carry distinct callback data, and the
\* static and dynamic handlers together are one handler for each of them
\* and no other.
C31_BuildKeepsButtons ==
  (probe.fn = "build" /\ probe.returned) =>
    LET flat == Flatten(probe.result.keyboard)
        buttons == { k \in DOMAIN flat : flat[k].kind = "text" }
        handlers == probe.result.staticHandlers
                      \o probe.result.dynamicHandlers
    IN /\ [k \in DOMAIN flat |->
             [kind |-> flat[k].kind, text |-> flat[k].text]] =
            DeclaredButtons(probe.ops, probe.data)
       /\ \A j \in buttons : \A k \in buttons :
            flat[j].callback_data = flat[k].callback_data => j = k
       /\ Len(handlers) = Cardinality(buttons)
       /\ { handlers[k].action : k \in DOMAIN handlers } =
            { flat[k].callback_data : k \in buttons }

\* a button, a section of a button and a nested section (row break and
\* button), and a url button: four buttons in declaration order, three
\* handlers
C31_Witness ==
  /\ probe.fn = "build" /\ probe.returned
  /\ probe.ops = <<Call("callback", "s1", "fn"), Call("dynamic", "", "listA"),
                   Call("url", "s3", "")>>
  /\ [k \in 1..4 |-> Flatten(probe.result.keyboard)[k].text] =
       <<"s1", "X", "Y", "s3">>
  /\ Len(probe.result.staticHandlers) = 1
  /\ Len(probe.result.dynamicHandlers) = 2

====
